---- MODULE Spec2Model ----
(***************************************************************************)
(* IO-Pty-HalfDuplex, sysctl.c: iphd_sysctl_is_waiting(pid).               *)
(*                                                                         *)
(* The function builds the selector {CTL_KERN, KERN_PROC, KERN_PROC_PID,   *)
(* pid}, asks sysctl() for one struct kinfo_proc into an automatic buffer  *)
(* kip, returns 0 when sysctl reports an error, and otherwise returns      *)
(* kip.ki_stat == 'S' && !strcmp(kip.ki_wmesg, "ttyin").                   *)
(*                                                                         *)
(* The kernel is the environment: a process table that changes at any      *)
(* time, and a facility that answers a request with an error, with a full  *)
(* snapshot, or (for a process that is gone) with success and fewer bytes  *)
(* than asked for.  kip is never initialised by the function, so what it   *)
(* holds before the kernel writes it is whatever the stack held.           *)
(***************************************************************************)
EXTENDS Integers, Sequences, FiniteSets, TLC

(***************************************************************************)
(* Bounds of the model.                                                    *)
(***************************************************************************)
\* number of callers (threads, each with its own stack)
NumCallers == 2
\* longest wait label the kernel stores; ki_wmesg is char[WMESGLEN + 1]
WMESGLEN == 8

(***************************************************************************)
(* Characters and strings.  A C string is a sequence of character codes;   *)
(* a char array is a function from 1..size to character codes, 0 = NUL.    *)
(***************************************************************************)
\* 'S'
STAT_S == 83
\* 'R', 'T', 'Z': running, stopped, zombie
OtherStats == {82, 84, 90}

\* "ttyin" without its terminating NUL
TTYIN == <<116, 116, 121, 105, 110>>
\* "", "ttyi", "ttyinx", "xttyin", "piperd"
EmptyLabel == <<>>
PrefixLabel == <<116, 116, 121, 105>>
SuperLabel == TTYIN \o <<120>>
InfixLabel == <<120>> \o TTYIN
PipeLabel == <<112, 105, 112, 101, 114, 100>>
Labels == {TTYIN, EmptyLabel, PrefixLabel, SuperLabel, InfixLabel, PipeLabel}

\* a string literal as the compiler lays it out: the characters, then NUL
Lit(s) == s \o <<0>>

\* the kernel's copy of a label into char[WMESGLEN + 1], NUL padded
Encode(label) ==
    [i \in 1..(WMESGLEN + 1) |-> IF i <= Len(label) THEN label[i] ELSE 0]

\* sizeof(struct kinfo_proc), of which the model keeps one leading byte for
\* all the fields the function does not read, then ki_stat and ki_wmesg
SizeofKip == 1 + 1 + (WMESGLEN + 1)

\* byte counts of a result that populated neither ki_stat nor ki_wmesg:
\* nothing, or the leading byte alone
ShortLens == {0, 1}

\* a char array that holds no NUL at all
Unterminated == [i \in 1..(WMESGLEN + 1) |-> 116]

\* strncmp(a, b, strlen("ttyin")): compares at most the literal's length
RECURSIVE StrncmpFrom(_, _, _, _)
StrncmpFrom(a, b, i, n) ==
    IF i > n THEN 0
    ELSE IF a[i] # b[i] THEN a[i] - b[i]
    ELSE IF a[i] = 0 THEN 0
    ELSE StrncmpFrom(a, b, i + 1, n)

PrefixStrcmp(a, b) == StrncmpFrom(a, b, 1, Len(b) - 1)

\* strcmp(a, b): byte by byte, up to the first difference or a NUL
RECURSIVE StrcmpFrom(_, _, _)
StrcmpFrom(a, b, i) ==
    IF a[i] # b[i] THEN a[i] - b[i]
    ELSE IF a[i] = 0 THEN 0
    ELSE StrcmpFrom(a, b, i + 1)

Strcmp(a, b) == StrcmpFrom(a, b, 1)

(***************************************************************************)
(* The kernel side.                                                        *)
(***************************************************************************)
NULL == "NULL"

\* a free slot of the process table; the snapshot field of an answer that
\* carries no snapshot
NoProc == [stat |-> 0, wmesg |-> <<>>]
NoSnap == NoProc

\* no earlier call to compare with
NoCall == [valid |-> FALSE, pid |-> 0, ret |-> 0]

\* a process as the kernel describes it: state code and wait label
Snapshot(stat, label) == [stat |-> stat, wmesg |-> label]

\* the snapshots of the sequential specification: every label while
\* sleeping, and the terminal-input and the empty label in every other state
SeqSnaps ==
    {Snapshot(STAT_S, l) : l \in Labels}
        \cup {Snapshot(s, l) : s \in OtherStats, l \in {TTYIN, EmptyLabel}}

\* the snapshots of the concurrent specification
ConcSnaps == {Snapshot(STAT_S, TTYIN), Snapshot(82, TTYIN)}

\* process identifiers that can be live, and identifiers a caller passes
TablePids == {1, 2}
SeqLive == {1}
ConcLive == {1, 2}
SeqPids == {-1, 0, 1, 2, 2147483647}
ConcPids == {1, 2}

\* conditions of the facility: it answers, or refuses with this errno
Conds == {"ok", "EPERM", "ENOMEM"}

Callers == 1..NumCallers
SeqCallers == {1}

VARIABLES
    procs,   \* kernel: process table, pid -> snapshot or NoProc
    cond,    \* kernel: "ok", or the errno every request is refused with
    pc,      \* caller: "idle", "called", "queried", "done"
    pid,     \* the argument of the call in progress
    addr,    \* int addr[4]
    kip,     \* struct kinfo_proc kip, one stack slot per caller
    kipsz,   \* size_t kipsz
    err,     \* int err
    ret,     \* the value returned (meaningful when pc is "done")
    req,     \* the last request passed to sysctl (name, newp, newlen)
    nreq,    \* requests issued by the call in progress
    resp,    \* what the kernel answered to the call in progress
    last,    \* the caller's previous call, while nothing it saw has changed
    prev,    \* the previous call, if for the same pid with nothing changed since
    dirty    \* the kernel state seen by this call's request has changed

vars == <<procs, cond, pc, pid, addr, kip, kipsz, err, ret, req, nreq, resp,
          last, prev, dirty>>

\* the buffer as the kernel fills it for a snapshot
Populate(s) == [ki_stat |-> s.stat, ki_wmesg |-> Encode(s.wmesg)]

\* what a stack slot can hold before anything is written to it: what an
\* earlier frame left there
SeqGarbage ==
    {Populate(s) : s \in SeqSnaps}
        \cup {[ki_stat |-> STAT_S, ki_wmesg |-> Unterminated]}
ConcGarbage == {Populate(s) : s \in ConcSnaps}

NoReq == [name |-> <<>>, newp |-> NULL, newlen |-> 0]
NoResp == [err |-> 0, errno |-> "none", len |-> 0, snap |-> NoSnap,
           live |-> FALSE]

Failure(e, isLive) ==
    [err |-> -1, errno |-> e, len |-> 0, snap |-> NoSnap, live |-> isLive]
Full(s) ==
    [err |-> 0, errno |-> "none", len |-> SizeofKip, snap |-> s,
     live |-> TRUE]
Short(n) ==
    [err |-> 0, errno |-> "none", len |-> n, snap |-> NoSnap, live |-> FALSE]

IsLive(p) == p \in TablePids /\ procs[p] # NoProc

\* the answers the facility can give to sysctl(name, 4, &kip, &kipsz, newp,
\* newlen) in the current kernel state
KernelSysctl(name, newp, newlen) ==
    LET p == name[4] IN
    IF newp # NULL THEN {Failure("EPERM", IsLive(p))}
    ELSE IF cond # "ok" THEN {Failure(cond, IsLive(p))}
    ELSE IF ~IsLive(p)
        THEN {Failure("ESRCH", FALSE)} \cup {Short(n) : n \in ShortLens}
    ELSE {Full(procs[p])}

(***************************************************************************)
(* iphd_sysctl_is_waiting                                                  *)
(***************************************************************************)
\* a caller's automatic variable kip lives in the caller's own stack
SharedKipSlot(t) == 1
KipSlot(t) == t

\* the new-value arguments of the request: NULL, 0
NewPNonNull == "&newval"
NewP == NULL
NewLen == 0

\* err < 0
FailedPositive(e) == e > 0
Failed(e) == e < 0

\* return 0 on the error path
RetErr(e) == e
RetOnFail(e) == 0

\* kip.ki_stat == 'S' && !strcmp(kip.ki_wmesg, "ttyin")
ClassifyOr(k) ==
    IF k.ki_stat = STAT_S \/ Strcmp(k.ki_wmesg, Lit(TTYIN)) = 0 THEN 1 ELSE 0
ClassifyPrefix(k) ==
    IF k.ki_stat = STAT_S /\ PrefixStrcmp(k.ki_wmesg, Lit(TTYIN)) = 0
    THEN 1 ELSE 0
ClassifyLabelOnly(k) ==
    IF Strcmp(k.ki_wmesg, Lit(TTYIN)) = 0 THEN 1 ELSE 0
Classify(k) ==
    IF k.ki_stat = STAT_S /\ Strcmp(k.ki_wmesg, Lit(TTYIN)) = 0 THEN 1 ELSE 0

\* entry: the locals are laid out, kipsz = sizeof(kip), addr[0..3] are set;
\* kip is left as the stack holds it
Call(t, p) ==
    /\ pc[t] = "idle"
    /\ pc' = [pc EXCEPT ![t] = "called"]
    /\ pid' = [pid EXCEPT ![t] = p]
    /\ addr' = [addr EXCEPT ![t] = <<"CTL_KERN", "KERN_PROC", "KERN_PROC_PID", p>>]
    /\ kipsz' = [kipsz EXCEPT ![t] = SizeofKip]
    /\ prev' = [prev EXCEPT ![t] =
                  IF last[t].valid /\ last[t].pid = p
                  THEN last[t] ELSE NoCall]
    /\ last' = [last EXCEPT ![t] = NoCall]
    /\ nreq' = [nreq EXCEPT ![t] = 0]
    /\ UNCHANGED <<procs, cond, kip, err, ret, req, resp, dirty>>

\* err = sysctl(addr, 4, &kip, &kipsz, NULL, 0), answered with r
Sysctl(t, r) ==
    /\ pc[t] = "called"
    /\ r \in KernelSysctl(addr[t], NewP, NewLen)
    /\ pc' = [pc EXCEPT ![t] = "queried"]
    /\ err' = [err EXCEPT ![t] = r.err]
    /\ kipsz' = [kipsz EXCEPT ![t] = IF r.err < 0 THEN kipsz[t] ELSE r.len]
    /\ kip' = IF r.snap # NoSnap
              THEN [kip EXCEPT ![KipSlot(t)] = Populate(r.snap)]
              ELSE kip
    /\ req' = [req EXCEPT ![t] =
                 [name |-> addr[t], newp |-> NewP, newlen |-> NewLen]]
    /\ nreq' = [nreq EXCEPT ![t] = nreq[t] + 1]
    /\ resp' = [resp EXCEPT ![t] = r]
    /\ UNCHANGED <<procs, cond, pid, addr, ret, last, prev, dirty>>

SysctlStep(t) ==
    /\ pc[t] = "called"
    /\ \E r \in KernelSysctl(addr[t], NewP, NewLen) : Sysctl(t, r)

\* if (err < 0) return 0; return kip.ki_stat == 'S' && !strcmp(...)
Return(t) ==
    /\ pc[t] = "queried"
    /\ pc' = [pc EXCEPT ![t] = "done"]
    /\ ret' = [ret EXCEPT ![t] =
                 IF Failed(err[t]) THEN RetOnFail(err[t])
                 ELSE Classify(kip[KipSlot(t)])]
    /\ UNCHANGED <<procs, cond, pid, addr, kip, kipsz, err, req, nreq, resp,
                   last, prev, dirty>>

(***************************************************************************)
(* The caller, between calls.                                              *)
(***************************************************************************)
\* the caller takes the result; the frame of the call is gone
Finish(t) ==
    /\ pc[t] = "done"
    /\ pc' = [pc EXCEPT ![t] = "idle"]
    /\ last' = [last EXCEPT ![t] =
                  IF dirty[t] THEN NoCall
                  ELSE [valid |-> TRUE, pid |-> pid[t], ret |-> ret[t]]]
    /\ dirty' = [dirty EXCEPT ![t] = FALSE]
    /\ prev' = [prev EXCEPT ![t] = NoCall]
    /\ pid' = [pid EXCEPT ![t] = 0]
    /\ addr' = [addr EXCEPT ![t] = <<>>]
    /\ kipsz' = [kipsz EXCEPT ![t] = 0]
    /\ err' = [err EXCEPT ![t] = 0]
    /\ ret' = [ret EXCEPT ![t] = 0]
    /\ req' = [req EXCEPT ![t] = NoReq]
    /\ nreq' = [nreq EXCEPT ![t] = 0]
    /\ resp' = [resp EXCEPT ![t] = NoResp]
    /\ UNCHANGED <<procs, cond, kip>>

\* other frames of the caller overwrite the stack where kip will lie
ClobberStack(t, g) ==
    /\ pc[t] = "idle"
    /\ kip[t] # g
    /\ kip' = [kip EXCEPT ![t] = g]
    /\ UNCHANGED <<procs, cond, pc, pid, addr, kipsz, err, ret, req, nreq,
                   resp, last, prev, dirty>>

(***************************************************************************)
(* The kernel, at any time.                                                *)
(***************************************************************************)
\* the history of calls when the kernel state behind the pids in `hit`
\* changes: a call that asked about one of them no longer compares
Touch(hit) ==
    /\ last' = [t \in Callers |->
                  IF last[t].valid /\ last[t].pid \in hit
                  THEN NoCall ELSE last[t]]
    /\ prev' = [t \in Callers |->
                  IF pc[t] = "called" /\ pid[t] \in hit
                  THEN NoCall ELSE prev[t]]
    /\ dirty' = [t \in Callers |->
                   IF pc[t] \in {"queried", "done"} /\ pid[t] \in hit
                   THEN TRUE ELSE dirty[t]]

\* process q is created, exits, or changes its state or wait label
ProcChange(q, s) ==
    /\ procs[q] # s
    /\ procs' = [procs EXCEPT ![q] = s]
    /\ UNCHANGED <<cond, pc, pid, addr, kip, kipsz, err, ret, req, nreq, resp>>

\* the facility starts or stops refusing requests
CondChange(c) ==
    /\ cond # c
    /\ cond' = c
    /\ UNCHANGED <<procs, pc, pid, addr, kip, kipsz, err, ret, req, nreq, resp>>

(***************************************************************************)
(* Specifications.                                                         *)
(***************************************************************************)
InitOf(active, live, snaps, garbage) ==
    /\ procs \in [TablePids -> snaps \cup {NoProc}]
    /\ \A q \in TablePids \ live : procs[q] = NoProc
    /\ cond = "ok"
    /\ pc = [t \in Callers |-> "idle"]
    /\ pid = [t \in Callers |-> 0]
    /\ addr = [t \in Callers |-> <<>>]
    /\ kip \in [Callers -> garbage]
    /\ \A t \in Callers \ active : kip[t] = Populate(Snapshot(82, EmptyLabel))
    /\ kipsz = [t \in Callers |-> 0]
    /\ err = [t \in Callers |-> 0]
    /\ ret = [t \in Callers |-> 0]
    /\ req = [t \in Callers |-> NoReq]
    /\ nreq = [t \in Callers |-> 0]
    /\ resp = [t \in Callers |-> NoResp]
    /\ last = [t \in Callers |-> NoCall]
    /\ prev = [t \in Callers |-> NoCall]
    /\ dirty = [t \in Callers |-> FALSE]

\* one caller, calling again and again, over the full set of snapshots
Init == InitOf(SeqCallers, SeqLive, SeqSnaps, SeqGarbage)

Next ==
    \/ \E t \in SeqCallers, p \in SeqPids : Call(t, p)
    \/ \E t \in SeqCallers : SysctlStep(t)
    \/ \E t \in SeqCallers : Return(t)
    \/ \E t \in SeqCallers : Finish(t)
    \/ \E t \in SeqCallers, g \in SeqGarbage : ClobberStack(t, g)
    \/ \E q \in SeqLive, s \in SeqSnaps \cup {NoProc} :
          ProcChange(q, s) /\ Touch({q})
    \/ \E c \in Conds : CondChange(c) /\ Touch(SeqPids)

Spec == Init /\ [][Next]_vars

\* the same, and a call in progress is not suspended for ever: sysctl is a
\* bounded in-kernel lookup and the function has no loop
FairSpec ==
    /\ Init
    /\ [][Next]_vars
    /\ \A t \in SeqCallers : WF_vars(SysctlStep(t)) /\ WF_vars(Return(t))

\* several callers at once, one call each, over a small set of snapshots;
\* no history of earlier calls is kept
ConcInit == InitOf(Callers, ConcLive, ConcSnaps, ConcGarbage)

ConcNext ==
    \/ \E t \in Callers, p \in ConcPids : Call(t, p)
    \/ \E t \in Callers : SysctlStep(t)
    \/ \E t \in Callers : Return(t)
    \/ \E q \in ConcLive, s \in ConcSnaps \cup {NoProc} :
          ProcChange(q, s) /\ UNCHANGED <<last, prev, dirty>>

ConcSpec == ConcInit /\ [][ConcNext]_vars

(***************************************************************************)
(* Properties.                                                             *)
(***************************************************************************)
Bool(b) == IF b THEN 1 ELSE 0

\* the call of caller t has returned
Returned(t) == pc[t] = "done"
\* the kernel answered caller t's request with an error
GotError(t) == resp[t].err < 0
\* ... with success and a whole snapshot
GotFull(t) == resp[t].err = 0 /\ resp[t].len = SizeofKip
\* ... with success and fewer bytes than a snapshot
GotShort(t) == resp[t].err = 0 /\ resp[t].len < SizeofKip

IsPrefix(a, b) == Len(a) <= Len(b) /\ SubSeq(b, 1, Len(a)) = a
Contains(w, x) ==
    \E i \in 1..(Len(w) - Len(x) + 1) : SubSeq(w, i, i + Len(x) - 1) = x

\* C1: after a successful request that returned a whole snapshot, the
\* function returns true exactly when the snapshot's state is 'S' and its
\* wait label is "ttyin", and false for every other snapshot.
C1_Classification ==
    \A t \in Callers :
        Returned(t) /\ GotFull(t) =>
            ret[t] = Bool(resp[t].snap.stat = STAT_S
                          /\ resp[t].snap.wmesg = TTYIN)

C1_Witness ==
    \E t \in Callers :
        /\ Returned(t) /\ GotFull(t)
        /\ resp[t].snap = Snapshot(STAT_S, TTYIN)
        /\ ret[t] = 1

\* C2: when the request fails, whatever the errno, the function returns
\* false after that one request, whatever the buffer holds.
C2_FailureIsFalse ==
    \A t \in Callers :
        Returned(t) /\ GotError(t) =>
            /\ resp[t].errno \in {"ESRCH", "EPERM", "ENOMEM"}
            /\ ret[t] = 0
            /\ nreq[t] = 1

C2_Witness ==
    \E t \in Callers :
        /\ Returned(t) /\ GotError(t)
        /\ resp[t].errno = "ENOMEM"
        /\ kip[t] = Populate(Snapshot(STAT_S, TTYIN))
        /\ ret[t] = 0

\* C3: for every pid and every answer of the kernel, a call returns, and
\* what it returns is 0 or 1.
C3_Totality ==
    /\ [](\A t \in Callers : Returned(t) => ret[t] \in {0, 1})
    /\ \A t \in Callers : (pc[t] = "called") ~> Returned(t)

C3_Witness ==
    \E t \in Callers :
        /\ Returned(t)
        /\ pid[t] = -1
        /\ GotError(t)
        /\ ret[t] = 0

\* C4: a call for a pid with no live process at the time of the request
\* returns false, however the kernel reports the miss.
C4_NoProcessIsFalse ==
    \A t \in Callers :
        Returned(t) /\ ~resp[t].live => ret[t] = 0

\* C5: a sleeping process whose wait label is a strict prefix of "ttyin",
\* a longer string that starts with it, or a string that contains it,
\* without being equal to it, is classified false.
C5_ExactMatch ==
    \A t \in Callers :
        LET w == resp[t].snap.wmesg IN
        /\ Returned(t) /\ GotFull(t)
        /\ resp[t].snap.stat = STAT_S
        /\ w # TTYIN
        /\ (IsPrefix(w, TTYIN) \/ IsPrefix(TTYIN, w) \/ Contains(w, TTYIN))
        => ret[t] = 0

C5_Witness ==
    \E t \in Callers :
        /\ Returned(t) /\ GotFull(t)
        /\ resp[t].snap = Snapshot(STAT_S, SuperLabel)
        /\ ret[t] = 0

\* C6: a process whose state is not 'S' is classified false whatever its
\* wait label, "ttyin" included.
C6_WrongState ==
    \A t \in Callers :
        Returned(t) /\ GotFull(t) /\ resp[t].snap.stat # STAT_S
            => ret[t] = 0

C6_Witness ==
    \E t \in Callers :
        /\ Returned(t) /\ GotFull(t)
        /\ resp[t].snap = Snapshot(90, TTYIN)
        /\ ret[t] = 0

\* C7: a call returns what the caller's previous call for the same pid
\* returned, when the kernel state behind that pid has not changed since
\* the previous call's request.
C7_Idempotence ==
    \A t \in Callers :
        Returned(t) /\ prev[t].valid => ret[t] = prev[t].ret

\* C8: with several calls in progress at once, each call's request names
\* its own pid, the buffer of each call holds the snapshot the kernel gave
\* to that call, and each call returns the classification of that snapshot
\* (false after an error).
C8_Independent ==
    \A t \in Callers :
        /\ pc[t] \in {"queried", "done"} =>
              /\ req[t].name[4] = pid[t]
              /\ GotFull(t) => kip[t] = Populate(resp[t].snap)
        /\ Returned(t) /\ GotFull(t) =>
              ret[t] = Bool(resp[t].snap = Snapshot(STAT_S, TTYIN))
        /\ Returned(t) /\ GotError(t) => ret[t] = 0

C8_Witness ==
    \E t1, t2 \in Callers :
        /\ t1 # t2
        /\ pc[t1] = "queried" /\ pc[t2] = "queried"
        /\ pid[t1] = pid[t2]
        /\ GotFull(t1) /\ GotFull(t2)
        /\ resp[t1].snap # resp[t2].snap

C10_ShortIsFalse ==
    \A t \in Callers :
        Returned(t) /\ GotShort(t) => ret[t] = 0

====
